---- MODULE Spec2Model ----
(***************************************************************************)
(* The catalog-query helper layer of the HSC tutorial notebooks:           *)
(* hsccone / hscsearch / hscmetadata, hcvcone / hcvsearch / hcvmetadata,   *)
(* cat2url and checklegal.                                                 *)
(*                                                                         *)
(* One helper call runs at a time.  A call starts in one of the six entry  *)
(* points, stops at every requests.get (the server's answer is the         *)
(* environment's move) and ends in "done" with either an exception or a    *)
(* returned value; Return hands control back to the notebook.              *)
(*                                                                         *)
(* URLs and messages are strings built by concatenation as the f-strings   *)
(* build them.  Column names are sequences of one-character strings, so    *)
(* that str.lower, str.strip and str.join are computed character by        *)
(* character.  The verbose flag only prints r.url and is left out.         *)
(* args holds the parameters as bound in the helper, omitted the names of  *)
(* those the caller left to their defaults.  heap holds the objects that   *)
(* outlive a call: the module global hscapiurl and the caller's columns    *)
(* list and filter mapping as they are now.  itab and rtab are the tables  *)
(* of the cross-match cells.  previous is a history variable: the call     *)
(* before this one, as the recording specification keeps it.               *)
(***************************************************************************)
EXTENDS Naturals, Sequences, FiniteSets, TLC

VARIABLES pc, fn, args, omitted, data, rformat, url, requests, responses, exc,
          result, heap, itab, rtab, previous

vars == <<pc, fn, args, omitted, data, rformat, url, requests, responses, exc,
          result, heap, itab, rtab, previous>>

(***************************************************************************)
(* Bounds of the model.                                                    *)
(***************************************************************************)
\* longest columns list a caller passes
MaxCols == 2
\* most columns a metadata response describes
MaxMeta == 2
\* most rows of the catalog given to the cross-match
MaxRows == 2
\* most rows of a cross-match response
MaxMatches == 2

(***************************************************************************)
(* Input domains.                                                          *)
(***************************************************************************)
hscapiurl == "https://catalogs.mast.stsci.edu/api/v0.1/hsc"

BaseUrls == {hscapiurl, "http://localhost:8080/hsc"}

Releases == {"v1", "v2", "v3"}

Tables == {"summary", "detailed", "propermotions", "sourcepositions",
           "hcvsummary", "hcv", "images"}

MagTypes == {"magaper2", "magauto", "magpsf"}

Formats == {"csv", "votable", "json", "table", "xml"}

\* names a caller may ask for, as character sequences
RequestedNames == {<<"I", "d">>, <<" ", "i", "d">>, <<"x">>}

\* names a catalog may declare
CatalogNames == {<<"I", "D">>, <<"I", "D", " ">>, <<"X">>}

FilterKeys == {"numimages.gte"}

FilterVals == {"1", "2"}

\* the empty keyword dictionary
EmptyDict == [k \in {} |-> ""]

\* every **kw a caller may pass
KwChoices == UNION {[S -> FilterVals] : S \in SUBSET FilterKeys}

\* a Python float, held as the fraction it was computed from
Float(n, d) == [num |-> n, den |-> d]

\* positions a cone search is given (ra, dec, radius): 187.706, 12.391, 500/3600
Positions == {[ra |-> Float(187706, 1000), dec |-> Float(12391, 1000),
               radius |-> Float(500, 3600)]}

\* HTTP status codes the server answers with
Statuses == {200, 404, 500}

\* rows of a search response
RowSets == {<<>>, <<"r1">>, <<"r1", "r2">>}

SeqsUpTo(S, n) == UNION {[1..k -> S] : k \in 0..n}

Range(s) == {s[i] : i \in 1..Len(s)}

IsInjective(s) == \A i, j \in 1..Len(s) : s[i] = s[j] => i = j

\* the columns argument: None, or a list of names
None == [isNone |-> TRUE, names |-> <<>>]

ColumnChoices == {None} \cup {[isNone |-> FALSE, names |-> c] :
                              c \in SeqsUpTo(RequestedNames, MaxCols)}

\* one column descriptor of the metadata JSON array
Descriptor(n) == [name |-> n, type |-> "float", description |-> "column"]

\* the JSON arrays a metadata request may be answered with
MetadataBodies == {[i \in 1..Len(s) |-> Descriptor(s[i])] :
                   s \in {t \in SeqsUpTo(CatalogNames, MaxMeta) : IsInjective(t)}}

(***************************************************************************)
(* Python string operations.                                               *)
(***************************************************************************)
LowerChar(c) ==
    CASE c = "I" -> "i"
      [] c = "D" -> "d"
      [] c = "X" -> "x"
      [] OTHER -> c

\* str.lower
lower(s) == [i \in 1..Len(s) |-> LowerChar(s[i])]

\* str.strip: drops leading and trailing whitespace
strip(s) ==
    LET keep == {i \in 1..Len(s) : s[i] # " "}
        first == CHOOSE i \in keep : \A j \in keep : i <= j
        last == CHOOSE i \in keep : \A j \in keep : j <= i
    IN IF keep = {} THEN <<>> ELSE SubSeq(s, first, last)

RECURSIVE JoinStr(_, _)
\* sep.join(parts) on strings
JoinStr(parts, sep) ==
    IF parts = <<>> THEN ""
    ELSE IF Len(parts) = 1 THEN parts[1]
    ELSE parts[1] \o sep \o JoinStr(Tail(parts), sep)

RECURSIVE JoinChars(_, _)
\* sep.join(parts) on character sequences
JoinChars(parts, sep) ==
    IF parts = <<>> THEN <<>>
    ELSE IF Len(parts) = 1 THEN parts[1]
    ELSE parts[1] \o sep \o JoinChars(Tail(parts), sep)

(***************************************************************************)
(* Numbers and strings in the query string: requests.get(url, params=data) *)
(* sends every value as str(value), percent-encoded, in the order the keys *)
(* were put into data.  The digits of a float come from long division, so  *)
(* that no intermediate number is larger than ten times the denominator.   *)
(***************************************************************************)
\* significant digits float.__repr__ needs for the values of the model
ReprDigits == 16

DigitStr(d) == <<"0", "1", "2", "3", "4", "5", "6", "7", "8", "9">>[d + 1]

RECURSIVE DigitsStr(_)
DigitsStr(ds) == IF ds = <<>> THEN "" ELSE DigitStr(Head(ds)) \o DigitsStr(Tail(ds))

RECURSIVE IntDigits(_)
\* the decimal digits of a natural number
IntDigits(n) == IF n < 10 THEN <<n>> ELSE Append(IntDigits(n \div 10), n % 10)

RECURSIVE FracDigits(_, _, _)
\* the first n digits after the point of r/d, for r < d
FracDigits(r, d, n) ==
    IF n = 0 THEN <<>>
    ELSE <<(r * 10) \div d>> \o FracDigits((r * 10) % d, d, n - 1)

RECURSIVE LeadingZeros(_, _)
\* the zeros between the point and the first significant digit of r/d
LeadingZeros(r, d) ==
    IF r = 0 \/ r * 10 >= d THEN 0 ELSE 1 + LeadingZeros(r * 10, d)

RECURSIVE Increment(_)
\* adds one in the last place: the digits and the carry out of the first
Increment(ds) ==
    IF ds = <<>> THEN [digits |-> <<>>, carry |-> 1]
    ELSE IF ds[Len(ds)] < 9
    THEN [digits |-> [ds EXCEPT ![Len(ds)] = @ + 1], carry |-> 0]
    ELSE LET front == Increment(SubSeq(ds, 1, Len(ds) - 1))
         IN [digits |-> Append(front.digits, 0), carry |-> front.carry]

RECURSIVE StripZeros(_)
StripZeros(ds) ==
    IF ds # <<>> /\ ds[Len(ds)] = 0 THEN StripZeros(SubSeq(ds, 1, Len(ds) - 1))
    ELSE ds

\* x rounded to n places after the point, trailing zeros dropped
Fixed(x, n) ==
    LET ip == x.num \div x.den
        all == FracDigits(x.num % x.den, x.den, n + 1)
        kept == SubSeq(all, 1, n)
        up == IF all[n + 1] >= 5 THEN Increment(kept)
              ELSE [digits |-> kept, carry |-> 0]
        frac == StripZeros(up.digits)
    IN DigitsStr(IntDigits(ip + up.carry)) \o "."
       \o (IF frac = <<>> THEN "0" ELSE DigitsStr(frac))

\* fault: the value is rounded to four decimals
repr_FourDecimals(x) == Fixed(x, 4)

\* float.__repr__: the shortest decimal that reads back as the same float
repr(x) ==
    LET ip == x.num \div x.den
    IN IF ip = 0
       THEN Fixed(x, ReprDigits + LeadingZeros(x.num % x.den, x.den))
       ELSE Fixed(x, ReprDigits - Len(IntDigits(ip)))

\* urllib's quote_plus on one character
QuoteChar(c) ==
    CASE c = " " -> "+"
      [] c = "[" -> "%5B"
      [] c = "]" -> "%5D"
      [] c = "," -> "%2C"
      [] OTHER -> c

RECURSIVE QuoteChars(_)
QuoteChars(cs) == IF cs = <<>> THEN "" ELSE QuoteChar(Head(cs)) \o QuoteChars(Tail(cs))

\* str(value), quoted: the positions are floats, columns is a character
\* sequence, a filter value is already its own text
QuoteValue(k, v) ==
    IF k \in {"ra", "dec", "radius"} THEN repr(v)
    ELSE IF k = "columns" THEN QuoteChars(v)
    ELSE v

\* the keys of data in the order they are inserted: **kw, then ra, dec and
\* radius in hsccone / hcvcone, then columns in the search helper
KeyOrder == <<"numimages.gte", "ra", "dec", "radius", "columns">>

\* urlencode(params): key=value pairs joined by &
urlencode(params) ==
    LET keys == SelectSeq(KeyOrder, LAMBDA k : k \in DOMAIN params)
    IN JoinStr([i \in 1..Len(keys) |-> keys[i] \o "=" \o QuoteValue(keys[i], params[keys[i]])],
               "&")

(***************************************************************************)
(* Exceptions.                                                             *)
(***************************************************************************)
NoExc == [type |-> "none", msg |-> "", detail |-> <<>>, status |-> 0]

ValueError(m) == [type |-> "ValueError", msg |-> m, detail |-> <<>>, status |-> 0]

\* requests' HTTPError, raised by Response.raise_for_status
HTTPError(s) == [type |-> "HTTPError", msg |-> "", detail |-> <<>>, status |-> s]

\* fault: only server errors raise
raise_for_status_ServerOnly(s) == 500 <= s /\ s < 600

\* Response.raise_for_status raises for 4xx and 5xx
raise_for_status(s) == 400 <= s /\ s < 600

(***************************************************************************)
(* checklegal and cat2url.                                                 *)
(***************************************************************************)
releaselist == <<"v2", "v3">>

\* fault: the table list does not depend on the release
tablelist_IgnoresRelease(release) ==
    <<"summary", "detailed", "propermotions", "sourcepositions",
      "hcvsummary", "hcv">>

tablelist(release) ==
    IF release = "v2" THEN <<"summary", "detailed">>
    ELSE <<"summary", "detailed", "propermotions", "sourcepositions",
           "hcvsummary", "hcv">>

magtypelist == <<"magaper2", "magauto">>

\* fault: the magtype is never checked
checklegal_NoMagtypeCheck(table, release, magtype) ==
    IF release \notin Range(releaselist)
    THEN ValueError("Bad value for release (must be one of "
                    \o JoinStr(releaselist, ", ") \o ")")
    ELSE IF table \notin Range(tablelist(release))
    THEN ValueError("Bad value for table (for " \o release \o " must be one of "
                    \o JoinStr(tablelist(release), ", ") \o ")")
    ELSE NoExc

\* fault: the magtype is checked before the release and the table
checklegal_MagtypeFirst(table, release, magtype) ==
    IF table = "summary" /\ magtype \notin Range(magtypelist)
    THEN ValueError("Bad value for magtype (must be one of "
                    \o JoinStr(magtypelist, ", ") \o ")")
    ELSE IF release \notin Range(releaselist)
    THEN ValueError("Bad value for release (must be one of "
                    \o JoinStr(releaselist, ", ") \o ")")
    ELSE IF table \notin Range(tablelist(release))
    THEN ValueError("Bad value for table (for " \o release \o " must be one of "
                    \o JoinStr(tablelist(release), ", ") \o ")")
    ELSE NoExc

\* the exception checklegal raises, NoExc when it returns
checklegal(table, release, magtype) ==
    IF release \notin Range(releaselist)
    THEN ValueError("Bad value for release (must be one of "
                    \o JoinStr(releaselist, ", ") \o ")")
    ELSE IF table \notin Range(tablelist(release))
    THEN ValueError("Bad value for table (for " \o release \o " must be one of "
                    \o JoinStr(tablelist(release), ", ") \o ")")
    ELSE IF table = "summary" /\ magtype \notin Range(magtypelist)
    THEN ValueError("Bad value for magtype (must be one of "
                    \o JoinStr(magtypelist, ", ") \o ")")
    ELSE NoExc

\* fault: the magtype segment is left out for summary
cat2url_NoMagtype(table, release, magtype, baseurl) ==
    LET e == checklegal(table, release, magtype)
    IN IF e # NoExc THEN [exc |-> e, url |-> ""]
       ELSE [exc |-> NoExc, url |-> baseurl \o "/" \o release \o "/" \o table]

\* fault: the magtype segment is added for every table
cat2url_MagtypeAlways(table, release, magtype, baseurl) ==
    LET e == checklegal(table, release, magtype)
    IN IF e # NoExc THEN [exc |-> e, url |-> ""]
       ELSE [exc |-> NoExc,
             url |-> baseurl \o "/" \o release \o "/" \o table \o "/" \o magtype]

\* cat2url: the exception it raises, or the URL it returns
cat2url(table, release, magtype, baseurl) ==
    LET e == checklegal(table, release, magtype)
    IN IF e # NoExc THEN [exc |-> e, url |-> ""]
       ELSE IF table = "summary"
       THEN [exc |-> NoExc,
             url |-> baseurl \o "/" \o release \o "/" \o table \o "/" \o magtype]
       ELSE [exc |-> NoExc, url |-> baseurl \o "/" \o release \o "/" \o table]

(***************************************************************************)
(* State.                                                                  *)
(***************************************************************************)
NoArgs == [table |-> "", release |-> "", magtype |-> "", format |-> "",
           columns |-> None, baseurl |-> "", kw |-> EmptyDict,
           pos |-> [ra |-> Float(0, 1), dec |-> Float(0, 1),
                    radius |-> Float(0, 1)]]

NoResult == [kind |-> "none", value |-> <<>>]

\* no call recorded
NoCall == [fn |-> "none", args |-> NoArgs, requests |-> <<>>, responses |-> <<>>,
           exc |-> NoExc, result |-> NoResult]

Init ==
    /\ pc = "idle"
    /\ fn = "none"
    /\ args = NoArgs
    /\ omitted = {}
    /\ data = EmptyDict
    /\ rformat = ""
    /\ url = ""
    /\ requests = <<>>
    /\ responses = <<>>
    /\ exc = NoExc
    /\ result = NoResult
    /\ heap = [hscapiurl |-> hscapiurl, columns |-> None, kw |-> EmptyDict]
    /\ itab = <<>>
    /\ rtab = <<>>
    /\ previous = NoCall

\* requests.get(url, params=params)
Get(u, params) == [url |-> u, params |-> params]

\* the call ends by raising e
Raise(e) ==
    /\ pc' = "done"
    /\ exc' = e
    /\ result' = NoResult

\* fault: the format is not checked
FormatList_Unchecked(helper) == Formats

\* fault: both helpers take the format tuple of hscsearch
FormatList_SameForAll(helper) == {"csv", "votable", "json", "table"}

\* the formats a search helper accepts
FormatList(helper) ==
    IF helper = "hscsearch" THEN {"csv", "votable", "json", "table"}
    ELSE {"csv", "votable", "json"}

(***************************************************************************)
(* hscsearch / hcvsearch up to the first requests.get.  kw is the keyword  *)
(* dictionary the helper receives.                                         *)
(***************************************************************************)
\* "not data": the dictionary is empty
NotData(d) == DOMAIN d = {}

\* fault: "if columns is not None"
HasColumns_NotNone(columns) == ~columns.isNone

\* "if columns": neither None nor an empty list
HasColumns(columns) == ~columns.isNone /\ columns.names # <<>>

\* fault: a columns list counts as a search parameter
validate_ColumnsCount(helper, a, kw) ==
    IF NotData(kw) /\ ~HasColumns(a.columns)
    THEN ValueError("You must specify some parameters for search")
    ELSE IF a.format \notin FormatList(helper)
    THEN ValueError("Bad value for format")
    ELSE cat2url(a.table, a.release, a.magtype, a.baseurl).exc

\* fault: the triple is checked before the filters and the format
validate_TripleFirst(helper, a, kw) ==
    IF cat2url(a.table, a.release, a.magtype, a.baseurl).exc # NoExc
    THEN cat2url(a.table, a.release, a.magtype, a.baseurl).exc
    ELSE IF NotData(kw)
    THEN ValueError("You must specify some parameters for search")
    ELSE IF a.format \notin FormatList(helper)
    THEN ValueError("Bad value for format")
    ELSE NoExc

\* the checks made before any request: the exception raised, NoExc if none
validate(helper, a, kw) ==
    IF NotData(kw)
    THEN ValueError("You must specify some parameters for search")
    ELSE IF a.format \notin FormatList(helper)
    THEN ValueError("Bad value for format")
    ELSE cat2url(a.table, a.release, a.magtype, a.baseurl).exc

\* fault: the table format is asked of the server as it is
RequestFormat_Same(format) == format

\* rformat: the format asked of the server
RequestFormat(format) == IF format = "table" THEN "csv" ELSE format

\* fault: the columns are not validated again when the call before this one
\* validated columns of the same table
search_Cached(helper, a, kw) ==
    LET rf == RequestFormat(a.format)
        e == validate(helper, a, kw)
        c == cat2url(a.table, a.release, a.magtype, a.baseurl)
        m == cat2url(a.table, a.release, a.magtype, hscapiurl)
        cached == /\ Len(previous.requests) = 2
                  /\ previous.args.table = a.table
                  /\ previous.args.release = a.release
        withcolumns == ("columns" :> (<<"[">> \o JoinChars(a.columns.names, <<",">>)
                                      \o <<"]">>)) @@ kw
    IN
    /\ responses' = <<>>
    /\ rformat' = IF NotData(kw) \/ a.format \notin FormatList(helper) THEN "" ELSE rf
    /\ IF e # NoExc
       THEN /\ Raise(e)
            /\ url' = ""
            /\ requests' = <<>>
            /\ data' = kw
       ELSE /\ url' = c.url \o "." \o rf
            /\ exc' = NoExc
            /\ result' = NoResult
            /\ IF HasColumns(a.columns) /\ ~cached
               THEN /\ requests' = <<Get(m.url \o "/metadata", EmptyDict)>>
                    /\ data' = kw
                    /\ pc' = "meta_wait"
               ELSE IF HasColumns(a.columns)
               THEN /\ requests' = <<Get(c.url \o "." \o rf, withcolumns)>>
                    /\ data' = withcolumns
                    /\ pc' = "search_wait"
               ELSE /\ requests' = <<Get(c.url \o "." \o rf, kw)>>
                    /\ data' = kw
                    /\ pc' = "search_wait"

search(helper, a, kw) ==
    LET rf == RequestFormat(a.format)
        e == validate(helper, a, kw)
        c == cat2url(a.table, a.release, a.magtype, a.baseurl)
        m == cat2url(a.table, a.release, a.magtype, hscapiurl)
    IN
    /\ data' = kw
    /\ responses' = <<>>
    /\ rformat' = IF NotData(kw) \/ a.format \notin FormatList(helper) THEN "" ELSE rf
    /\ IF e # NoExc
       THEN /\ Raise(e)
            /\ url' = ""
            /\ requests' = <<>>
       ELSE /\ url' = c.url \o "." \o rf
            /\ exc' = NoExc
            /\ result' = NoResult
            /\ IF HasColumns(a.columns)
               THEN /\ requests' = <<Get(m.url \o "/metadata", EmptyDict)>>
                    /\ pc' = "meta_wait"
               ELSE /\ requests' = <<Get(c.url \o "." \o rf, kw)>>
                    /\ pc' = "search_wait"

SearchArgs ==
    [table : Tables, release : Releases, magtype : MagTypes, format : Formats,
     columns : ColumnChoices, baseurl : BaseUrls, kw : KwChoices,
     pos : {NoArgs.pos}]

ConeArgs ==
    [table : Tables, release : Releases, magtype : MagTypes, format : Formats,
     columns : ColumnChoices, baseurl : BaseUrls, kw : KwChoices,
     pos : Positions]

MetadataArgs ==
    [table : Tables, release : Releases, magtype : MagTypes, format : {""},
     columns : {None}, baseurl : BaseUrls, kw : {EmptyDict},
     pos : {NoArgs.pos}]

\* fault: the default magtype is magauto
Defaults_Magauto(f) ==
    [table |-> IF f \in {"hscsearch", "hsccone", "hscmetadata"}
               THEN "summary" ELSE "hcvsummary",
     release |-> "v3", magtype |-> "magauto", format |-> "csv",
     columns |-> None, baseurl |-> hscapiurl]

\* the defaults in the signature of helper f
Defaults(f) ==
    [table |-> IF f \in {"hscsearch", "hsccone", "hscmetadata"}
               THEN "summary" ELSE "hcvsummary",
     release |-> "v3", magtype |-> "magaper2", format |-> "csv",
     columns |-> None, baseurl |-> hscapiurl]

\* the parameters a caller of a search helper may leave out together
SearchOmissions ==
    {{}, {"magtype", "format"},
     {"table", "release", "magtype", "format", "columns", "baseurl"}}

\* the parameters a caller of a metadata helper may leave out together
MetadataOmissions == {{}, {"magtype"}, {"table", "release", "magtype", "baseurl"}}

\* a holds the default of f for every parameter left out
Binds(f, a, om) == \A p \in om : a[p] = Defaults(f)[p]

\* the caller's columns list and filter mapping at the moment of the call
CallerObjects(a) ==
    /\ heap' = [heap EXCEPT !.columns = a.columns, !.kw = a.kw]
    /\ UNCHANGED <<itab, rtab, previous>>

\* fault: the extra filters are not copied
ConeData_DropsKw(a) ==
    ("ra" :> a.pos.ra) @@ ("dec" :> a.pos.dec) @@ ("radius" :> a.pos.radius)

\* fault: the radius is passed as dec
ConeData_RadiusAsDec(a) ==
    ("ra" :> a.pos.ra) @@ ("dec" :> a.pos.radius) @@ ("radius" :> a.pos.radius) @@ a.kw

\* the dictionary a cone search passes on: kw.copy() plus ra, dec, radius
ConeData(a) ==
    ("ra" :> a.pos.ra) @@ ("dec" :> a.pos.dec) @@ ("radius" :> a.pos.radius) @@ a.kw

hscsearch ==
    /\ pc = "idle"
    /\ \E om \in SearchOmissions, a \in SearchArgs :
        /\ Binds("hscsearch", a, om)
        /\ fn' = "hscsearch"
        /\ args' = a
        /\ omitted' = om
        /\ CallerObjects(a)
        /\ search("hscsearch", a, a.kw)

hcvsearch ==
    /\ pc = "idle"
    /\ \E om \in SearchOmissions, a \in SearchArgs :
        /\ Binds("hcvsearch", a, om)
        /\ fn' = "hcvsearch"
        /\ args' = a
        /\ omitted' = om
        /\ CallerObjects(a)
        /\ search("hcvsearch", a, a.kw)

hsccone ==
    /\ pc = "idle"
    /\ \E om \in SearchOmissions, a \in ConeArgs :
        /\ Binds("hsccone", a, om)
        /\ fn' = "hsccone"
        /\ args' = a
        /\ omitted' = om
        /\ CallerObjects(a)
        /\ search("hscsearch", a, ConeData(a))

hcvcone ==
    /\ pc = "idle"
    /\ \E om \in SearchOmissions, a \in ConeArgs :
        /\ Binds("hcvcone", a, om)
        /\ fn' = "hcvcone"
        /\ args' = a
        /\ omitted' = om
        /\ CallerObjects(a)
        /\ search("hcvsearch", a, ConeData(a))

(***************************************************************************)
(* hscmetadata / hcvmetadata called directly, up to requests.get.          *)
(***************************************************************************)
metadata(a) ==
    LET c == cat2url(a.table, a.release, a.magtype, a.baseurl)
    IN
    /\ data' = EmptyDict
    /\ rformat' = ""
    /\ responses' = <<>>
    /\ IF c.exc # NoExc
       THEN /\ Raise(c.exc)
            /\ url' = "" /\ requests' = <<>>
       ELSE /\ url' = c.url \o "/metadata"
            /\ requests' = <<Get(c.url \o "/metadata", EmptyDict)>>
            /\ exc' = NoExc
            /\ result' = NoResult
            /\ pc' = "meta_wait"

hscmetadata ==
    /\ pc = "idle"
    /\ \E om \in MetadataOmissions, a \in MetadataArgs :
        /\ Binds("hscmetadata", a, om)
        /\ fn' = "hscmetadata"
        /\ args' = a
        /\ omitted' = om
        /\ CallerObjects(a)
        /\ metadata(a)

hcvmetadata ==
    /\ pc = "idle"
    /\ \E om \in MetadataOmissions, a \in MetadataArgs :
        /\ Binds("hcvmetadata", a, om)
        /\ fn' = "hcvmetadata"
        /\ args' = a
        /\ omitted' = om
        /\ CallerObjects(a)
        /\ metadata(a)

IsMetadataCall == fn \in {"hscmetadata", "hcvmetadata"}

\* the search helper a call runs in
Helper == IF fn \in {"hscsearch", "hsccone"} THEN "hscsearch" ELSE "hcvsearch"

(***************************************************************************)
(* Column validation in hscsearch / hcvsearch.                             *)
(***************************************************************************)
\* the keys of dcols built from the metadata table's name column
dcols(tab) == {lower(tab[i].name) : i \in 1..Len(tab)}

\* fault: the comparison is case-sensitive
IsBadCol_CaseSensitive(col, tab) == strip(col) \notin {tab[i].name : i \in 1..Len(tab)}

IsBadCol(col, tab) == strip(lower(col)) \notin dcols(tab)

badcols(columns, tab) == SelectSeq(columns, LAMBDA col : IsBadCol(col, tab))

UnknownColumn(bad) ==
    [type |-> "ValueError", msg |-> "Some columns not found in table: ",
     detail |-> JoinChars(bad, <<",", " ">>), status |-> 0]

\* fault: the list is sent without its brackets
ColumnsParam_NoBrackets(columns) == JoinChars(columns, <<",">>)

\* fault: the names are sent in the form used for validation
ColumnsParam_Normalised(columns) ==
    <<"[">> \o JoinChars([i \in 1..Len(columns) |-> strip(lower(columns[i]))], <<",">>)
    \o <<"]">>

\* data['columns']
ColumnsParam(columns) == <<"[">> \o JoinChars(columns, <<",">>) \o <<"]">>

\* fault: the rows come out in reverse order
MetadataTable_Reversed(v) ==
    [i \in 1..Len(v) |-> [name |-> v[Len(v) + 1 - i].name,
                          type |-> v[Len(v) + 1 - i].type,
                          description |-> v[Len(v) + 1 - i].description]]

\* Table(rows=[(x['name'], x['type'], x['description']) for x in v], names=...)
MetadataTable(v) ==
    [i \in 1..Len(v) |-> [name |-> v[i].name, type |-> v[i].type,
                          description |-> v[i].description]]

\* fault: the search request is sent before the bad columns are reported
ValidateColumns_GetFirst(tab) ==
    LET bad == badcols(args.columns.names, tab)
        newdata == ("columns" :> ColumnsParam(args.columns.names)) @@ data
    IN /\ data' = newdata
       /\ requests' = Append(requests, Get(url, newdata))
       /\ UNCHANGED heap
       /\ IF bad # <<>>
          THEN Raise(UnknownColumn(bad))
          ELSE /\ pc' = "search_wait"
               /\ UNCHANGED <<exc, result>>

\* fault: the names are lowercased and trimmed in the caller's list
ValidateColumns_InPlace(tab) ==
    LET bad == badcols(args.columns.names, tab)
        newdata == ("columns" :> ColumnsParam(args.columns.names)) @@ data
        clean == [i \in 1..Len(heap.columns.names) |->
                    strip(lower(heap.columns.names[i]))]
    IN /\ heap' = [heap EXCEPT !.columns.names = clean]
       /\ IF bad # <<>>
          THEN /\ Raise(UnknownColumn(bad))
               /\ UNCHANGED <<data, requests>>
          ELSE /\ data' = newdata
               /\ requests' = Append(requests, Get(url, newdata))
               /\ pc' = "search_wait"
               /\ UNCHANGED <<exc, result>>

\* the search helper goes on after hscmetadata / hcvmetadata returned tab
ValidateColumns(tab) ==
    LET bad == badcols(args.columns.names, tab)
        newdata == ("columns" :> ColumnsParam(args.columns.names)) @@ data
    IN IF bad # <<>>
       THEN /\ Raise(UnknownColumn(bad))
            /\ UNCHANGED <<data, requests, heap>>
       ELSE /\ data' = newdata
            /\ requests' = Append(requests, Get(url, newdata))
            /\ pc' = "search_wait"
            /\ UNCHANGED <<exc, result, heap>>

(***************************************************************************)
(* The server answers the metadata request.                                *)
(***************************************************************************)
MetadataResponse ==
    /\ pc = "meta_wait"
    /\ \E status \in Statuses, body \in MetadataBodies :
        LET v == IF raise_for_status(status) THEN <<>> ELSE body
            tab == MetadataTable(v)
        IN
        /\ responses' = Append(responses, [status |-> status, body |-> v])
        /\ IF raise_for_status(status)
           THEN /\ Raise(HTTPError(status))
                /\ UNCHANGED <<data, requests, heap>>
           ELSE IF IsMetadataCall
           THEN /\ pc' = "done"
                /\ exc' = NoExc
                /\ result' = [kind |-> "metadata", value |-> tab]
                /\ UNCHANGED <<data, requests, heap>>
           ELSE ValidateColumns(tab)
    /\ UNCHANGED <<fn, args, omitted, rformat, url, itab, rtab, previous>>

(***************************************************************************)
(* The server answers the search request; the helper decodes the body.     *)
(***************************************************************************)
\* r.text of a response in encoding enc carrying rows
Text(enc, rows) == [enc |-> enc, rows |-> rows]

\* r.json()
json(text) == [kind |-> "json", value |-> text.rows]

\* Table.from_pandas(pd.read_csv(StringIO(r.text)))
read_csv(text) == [kind |-> "table", value |-> text.rows]

\* fault: the table format is returned as text
Decode_TableAsText(helper, format, text) ==
    IF format = "json" THEN json(text)
    ELSE [kind |-> "text", value |-> text]

\* fault: hcvsearch returns the text of a json response
Decode_HcvJsonAsText(helper, format, text) ==
    IF format = "json" /\ helper = "hscsearch" THEN json(text)
    ELSE IF helper = "hscsearch" /\ format = "table" THEN read_csv(text)
    ELSE [kind |-> "text", value |-> text]

\* what the helper returns for a successful response
Decode(helper, format, text) ==
    IF format = "json" THEN json(text)
    ELSE IF helper = "hscsearch" /\ format = "table" THEN read_csv(text)
    ELSE [kind |-> "text", value |-> text]

\* fault: a failed search request is sent once more
SearchResponse_Retry ==
    /\ pc = "search_wait"
    /\ \E status \in Statuses, rows \in RowSets :
        LET text == Text(rformat, IF raise_for_status(status) THEN <<>> ELSE rows)
            sent == Cardinality({i \in 1..Len(requests) : requests[i].url = url})
        IN
        /\ responses' = Append(responses, [status |-> status, body |-> text])
        /\ IF raise_for_status(status) /\ sent = 1
           THEN /\ requests' = Append(requests, Get(url, data))
                /\ UNCHANGED <<pc, exc, result>>
           ELSE IF raise_for_status(status)
           THEN Raise(HTTPError(status)) /\ UNCHANGED requests
           ELSE /\ pc' = "done"
                /\ exc' = NoExc
                /\ result' = Decode(Helper, args.format, text)
                /\ UNCHANGED requests
    /\ UNCHANGED <<fn, args, omitted, data, rformat, url, heap, itab, rtab,
                   previous>>

SearchResponse ==
    /\ pc = "search_wait"
    /\ \E status \in Statuses, rows \in RowSets :
        LET text == Text(rformat, IF raise_for_status(status) THEN <<>> ELSE rows)
        IN
        /\ responses' = Append(responses, [status |-> status, body |-> text])
        /\ IF raise_for_status(status)
           THEN Raise(HTTPError(status))
           ELSE /\ pc' = "done"
                /\ exc' = NoExc
                /\ result' = Decode(Helper, args.format, text)
    /\ UNCHANGED <<fn, args, omitted, data, rformat, url, requests, heap, itab,
                   rtab, previous>>

(***************************************************************************)
(* The cross-match cells: the input catalog is read and uploaded, the      *)
(* response is read into rtab, and the two are joined on the positions.    *)
(* The service answers with rows that carry the position of an input row   *)
(* in _ra_ and _dec_; the cells do not look at the status.                 *)
(***************************************************************************)
crossmatchurl == "https://catalogs.mast.stsci.edu/api/v0.1/hsc/v3/crossmatch/upload.csv"

\* positions of the rows of an input catalog
SkyPositions == {[ra |-> Float(21, 2), dec |-> Float(5, 1)],
                 [ra |-> Float(43, 4), dec |-> Float(5, 1)]}

\* Table.read(filename, format='ascii.csv')
Catalogs == SeqsUpTo(SkyPositions, MaxRows)

MatchIDs == {1, 2}

\* the rows a response may carry for the catalog t
MatchRows(t) ==
    {[_ra_ |-> t[i].ra, _dec_ |-> t[i].dec, MatchID |-> m] :
        i \in 1..Len(t), m \in MatchIDs}

\* requests.post(url, params=dict(radius=r), files=dict(file=...))
Post(u, params, file) == [url |-> u, params |-> params, files |-> file]

\* x < y on floats
FloatLess(x, y) == x.num * y.den < y.num * x.den

\* the keys of left row i and right row j are equal
IsMatch(left, right, i, j) ==
    /\ left[i].ra = right[j]._ra_
    /\ left[i].dec = right[j]._dec_

\* the output order of join: by key, then by the rows' places
PairLess(left, p, q) ==
    \/ FloatLess(left[p[1]].ra, left[q[1]].ra)
    \/ /\ left[p[1]].ra = left[q[1]].ra
       /\ FloatLess(left[p[1]].dec, left[q[1]].dec)
    \/ /\ left[p[1]].ra = left[q[1]].ra
       /\ left[p[1]].dec = left[q[1]].dec
       /\ (p[1] < q[1] \/ (p[1] = q[1] /\ p[2] < q[2]))

RECURSIVE SortPairs(_, _)
SortPairs(left, S) ==
    IF S = {} THEN <<>>
    ELSE LET m == CHOOSE p \in S : \A q \in S \ {p} : PairLess(left, p, q)
         IN <<m>> \o SortPairs(left, S \ {m})

\* join(itab, rtab, keys_left=['ra','dec'], keys_right=['_ra_','_dec_']):
\* the inner join, one row for every pair of rows with equal keys
join(left, right) ==
    LET pairs == {p \in (1..Len(left)) \X (1..Len(right)) :
                    IsMatch(left, right, p[1], p[2])}
        order == SortPairs(left, pairs)
    IN [k \in 1..Len(order) |->
            [ra |-> left[order[k][1]].ra, dec |-> left[order[k][1]].dec,
             _ra_ |-> right[order[k][2]]._ra_, _dec_ |-> right[order[k][2]]._dec_,
             MatchID |-> right[order[k][2]].MatchID]]

AssertionError(m) == [type |-> "AssertionError", msg |-> m, detail |-> <<>>, status |-> 0]

\* del tab['_ra_'], del tab['_dec_']
DelEcho(tab) ==
    [k \in 1..Len(tab) |-> [ra |-> tab[k].ra, dec |-> tab[k].dec,
                            MatchID |-> tab[k].MatchID]]

\* the catalog is read and uploaded
crossmatch ==
    /\ pc = "idle"
    /\ \E t \in Catalogs :
        /\ itab' = t
        /\ requests' = <<Post(crossmatchurl, "radius" :> Float(833, 1000000), t)>>
    /\ pc' = "crossmatch_wait"
    /\ fn' = "crossmatch"
    /\ url' = crossmatchurl
    /\ rtab' = <<>>
    /\ responses' = <<>>
    /\ UNCHANGED <<args, omitted, data, rformat, exc, result, heap, previous>>

\* the service answers; rtab = Table.read(r.text, format='ascii.csv')
CrossmatchResponse ==
    /\ pc = "crossmatch_wait"
    /\ \E m \in SeqsUpTo(MatchRows(itab), MaxMatches) :
        /\ rtab' = m
        /\ responses' = <<[status |-> 200, body |-> m]>>
    /\ pc' = "join"
    /\ UNCHANGED <<fn, args, omitted, data, rformat, url, requests, exc, result,
                   heap, itab, previous>>

\* the join cell
JoinCell ==
    /\ pc = "join"
    /\ LET tab == join(itab, rtab)
       IN IF Len(tab) # Len(rtab)
          THEN Raise(AssertionError("Unexpected mismatch in length"))
          ELSE /\ pc' = "done"
               /\ exc' = NoExc
               /\ result' = [kind |-> "table", value |-> DelEcho(tab)]
    /\ UNCHANGED <<fn, args, omitted, data, rformat, url, requests, responses,
                   heap, itab, rtab, previous>>

(***************************************************************************)
(* The call is over; nothing of it is kept.  The caller lets go of the     *)
(* objects it passed; the module global lives on.                          *)
(***************************************************************************)
\* the frame of the call is dropped
Reset ==
    /\ pc = "done"
    /\ pc' = "idle"
    /\ fn' = "none"
    /\ args' = NoArgs
    /\ omitted' = {}
    /\ data' = EmptyDict
    /\ rformat' = ""
    /\ url' = ""
    /\ requests' = <<>>
    /\ responses' = <<>>
    /\ exc' = NoExc
    /\ result' = NoResult
    /\ itab' = <<>>
    /\ rtab' = <<>>
    /\ heap' = [heap EXCEPT !.columns = None, !.kw = EmptyDict]

Return == Reset /\ UNCHANGED previous

Next ==
    \/ hscsearch
    \/ hcvsearch
    \/ hsccone
    \/ hcvcone
    \/ hscmetadata
    \/ hcvmetadata
    \/ MetadataResponse
    \/ SearchResponse
    \/ crossmatch
    \/ CrossmatchResponse
    \/ JoinCell
    \/ Return

Spec == Init /\ [][Next]_vars

(***************************************************************************)
(* The recording specification: the same helpers called with a small set   *)
(* of arguments, every finished call kept in previous, so that a call can  *)
(* be compared with the call before it.                                    *)
(***************************************************************************)
ProbeHelpers == {"hscsearch", "hcvsearch", "hsccone", "hcvcone", "hscmetadata"}

\* the arguments of the recorded calls, all given explicitly
ProbeArgs(f) ==
    IF f = "hscmetadata"
    THEN [table : {"summary", "images"}, release : {"v3"}, magtype : {"magaper2"},
          format : {""}, columns : {None}, baseurl : {hscapiurl},
          kw : {EmptyDict}, pos : {NoArgs.pos}]
    ELSE [table : {"summary", "images"}, release : {"v3"}, magtype : {"magaper2"},
          format : {"json", "table"},
          columns : {None, [isNone |-> FALSE, names |-> <<<<"I", "d">>>>]},
          baseurl : {hscapiurl},
          kw : {EmptyDict, "numimages.gte" :> "1"},
          pos : IF f \in {"hsccone", "hcvcone"} THEN Positions ELSE {NoArgs.pos}]

CallProbe ==
    /\ pc = "idle"
    /\ \E f \in ProbeHelpers : \E a \in ProbeArgs(f) :
        /\ fn' = f
        /\ args' = a
        /\ omitted' = {}
        /\ CallerObjects(a)
        /\ CASE f \in {"hscsearch", "hcvsearch"} -> search(f, a, a.kw)
             [] f = "hsccone" -> search("hscsearch", a, ConeData(a))
             [] f = "hcvcone" -> search("hcvsearch", a, ConeData(a))
             [] OTHER -> metadata(a)

\* the call returns and is recorded
ReturnRecord ==
    /\ Reset
    /\ previous' = [fn |-> fn, args |-> args, requests |-> requests,
                    responses |-> responses, exc |-> exc, result |-> result]

NextHistory ==
    \/ CallProbe
    \/ MetadataResponse
    \/ SearchResponse
    \/ ReturnRecord

SpecHistory == Init /\ [][NextHistory]_vars

(***************************************************************************)
(* Vocabulary of the properties.                                           *)
(***************************************************************************)
IsSearchCall == fn \in {"hscsearch", "hcvsearch", "hsccone", "hcvcone"}

\* the call passes at least one filter to the search helper
HasFilter == fn \in {"hsccone", "hcvcone"} \/ args.kw # EmptyDict

\* the legality table of (table, release, magtype)
LegalTriple(t, r, m) ==
    /\ r \in {"v2", "v3"}
    /\ r = "v2" => t \in {"summary", "detailed"}
    /\ r = "v3" => t \in {"summary", "detailed", "propermotions",
                          "sourcepositions", "hcvsummary", "hcv"}
    /\ t = "summary" => m \in {"magaper2", "magauto"}

LegalArgs == LegalTriple(args.table, args.release, args.magtype)

\* the error kinds, recognised by the exception raised
IsInvalidCombination(e) ==
    /\ e.type = "ValueError"
    /\ e.msg \in
        {"Bad value for release (must be one of v2, v3)",
         "Bad value for table (for v2 must be one of summary, detailed)",
         "Bad value for table (for v3 must be one of summary, detailed, propermotions, sourcepositions, hcvsummary, hcv)",
         "Bad value for magtype (must be one of magaper2, magauto)"}

IsMissingParameters(e) ==
    e.type = "ValueError" /\ e.msg = "You must specify some parameters for search"

IsUnsupportedFormat(e) == e.type = "ValueError" /\ e.msg = "Bad value for format"

IsUnknownColumn(e) ==
    e.type = "ValueError" /\ e.msg = "Some columns not found in table: "

IsUpstreamHTTPError(e) == e.type = "HTTPError"

IsValidationError(e) ==
    \/ IsInvalidCombination(e)
    \/ IsMissingParameters(e)
    \/ IsUnsupportedFormat(e)
    \/ IsUnknownColumn(e)

\* the four formats of the interface
FourFormats == {"csv", "votable", "json", "table"}

\* the path of a legal triple under a base
ExpectedPath(a) ==
    IF a.table = "summary"
    THEN a.baseurl \o "/" \o a.release \o "/summary/" \o a.magtype
    ELSE a.baseurl \o "/" \o a.release \o "/" \o a.table

(***************************************************************************)
(* C1  cat2url / checklegal accept a triple exactly when the release is    *)
(*     v2 or v3, the table is legal for the release and, for summary, the  *)
(*     magtype is magaper2 or magauto; every other triple is rejected      *)
(*     with InvalidCombination.  (Seen in the metadata helpers, which      *)
(*     apply cat2url to their arguments before anything else.)             *)
(***************************************************************************)
C1_LegalIffAccepted ==
    IsMetadataCall =>
        /\ LegalArgs => pc \in {"meta_wait", "done"} /\ exc.type # "ValueError"
        /\ ~LegalArgs => pc = "done" /\ IsInvalidCombination(exc)

C1_Witness ==
    /\ IsMetadataCall
    /\ args.release = "v2"
    /\ args.table = "hcv"
    /\ pc = "done"
    /\ IsInvalidCombination(exc)

(***************************************************************************)
(* C2  For a legal triple cat2url returns base/release/table/magtype for   *)
(*     table summary and base/release/table for every other table; the     *)
(*     URL of a call is that path followed by the helper's suffix, in      *)
(*     every call with those arguments.                                    *)
(***************************************************************************)
C2_PathShape ==
    /\ IsMetadataCall /\ LegalArgs => url = ExpectedPath(args) \o "/metadata"
    /\ IsSearchCall /\ url # "" => url = ExpectedPath(args) \o "." \o rformat

C2_Witness ==
    /\ fn = "hcvmetadata"
    /\ args.table = "summary"
    /\ args.magtype = "magauto"
    /\ url = "http://localhost:8080/hsc/v3/summary/magauto/metadata"

(***************************************************************************)
(* C3  A search called with no keyword filter fails with                   *)
(*     MissingParameters without any HTTP request, whatever the table,     *)
(*     release, magtype, format and columns.                               *)
(***************************************************************************)
C3_NoFilterRejected ==
    fn \in {"hscsearch", "hcvsearch"} /\ args.kw = EmptyDict =>
        /\ pc = "done"
        /\ IsMissingParameters(exc)
        /\ requests = <<>>
        /\ responses = <<>>

C3_Witness ==
    /\ fn = "hscsearch"
    /\ args.kw = EmptyDict
    /\ args.columns.names = <<<<"I", "d">>>>
    /\ LegalArgs
    /\ args.format = "csv"
    /\ IsMissingParameters(exc)

(***************************************************************************)
(* C4  as written: a search that fails with any validation error has       *)
(*     issued no HTTP request.                                             *)
(***************************************************************************)
C4_Original ==
    IsSearchCall /\ pc = "done" /\ IsValidationError(exc) => requests = <<>>

(***************************************************************************)
(* C4  amended: a search that fails with InvalidCombination,               *)
(*     MissingParameters or UnsupportedFormat has issued no HTTP request;  *)
(*     one that fails with UnknownColumn has issued the metadata request   *)
(*     and nothing else, in particular not the search request.             *)
(***************************************************************************)
C4_Amended ==
    IsSearchCall /\ pc = "done" =>
        /\ (\/ IsInvalidCombination(exc)
            \/ IsMissingParameters(exc)
            \/ IsUnsupportedFormat(exc)) => requests = <<>>
        /\ IsUnknownColumn(exc) =>
            /\ Len(requests) = 1
            /\ requests[1].params = EmptyDict
            /\ requests[1].url # url

C4_Witness ==
    /\ IsSearchCall
    /\ pc = "done"
    /\ IsUnknownColumn(exc)
    /\ Len(requests) = 1

(***************************************************************************)
(* Comparison of column names as the properties state it.                  *)
(***************************************************************************)
SameLetter(c, d) ==
    \/ c = d
    \/ {c, d} \in {{"i", "I"}, {"d", "D"}, {"x", "X"}}

EqIgnoreCase(x, y) ==
    Len(x) = Len(y) /\ \A i \in 1..Len(x) : SameLetter(x[i], y[i])

RECURSIVE LTrim(_)
LTrim(s) == IF s # <<>> /\ Head(s) = " " THEN LTrim(Tail(s)) ELSE s

RECURSIVE RTrim(_)
RTrim(s) ==
    IF s # <<>> /\ s[Len(s)] = " " THEN RTrim(SubSeq(s, 1, Len(s) - 1)) ELSE s

Trimmed(s) == RTrim(LTrim(s))

\* the search call has validated its columns against a metadata table
ColumnsValidated ==
    /\ IsSearchCall
    /\ args.columns.names # <<>>
    /\ Len(responses) >= 1
    /\ responses[1].status < 400

(***************************************************************************)
(* C5  as written: column validation succeeds if and only if every         *)
(*     requested name equals some metadata name ignoring letter case;      *)
(*     otherwise UnknownColumn lists exactly the names without such a      *)
(*     match, in the order and spelling requested.                         *)
(***************************************************************************)
C5_Original ==
    ColumnsValidated =>
        LET tab == responses[1].body
            req == args.columns.names
            Known(q) == \E i \in 1..Len(tab) : EqIgnoreCase(q, tab[i].name)
            unknown == SelectSeq(req, LAMBDA q : ~Known(q))
        IN /\ unknown = <<>> => ~IsUnknownColumn(exc) /\ Len(requests) = 2
           /\ unknown # <<>> =>
                /\ pc = "done"
                /\ IsUnknownColumn(exc)
                /\ exc.detail = JoinChars(unknown, <<",", " ">>)

(***************************************************************************)
(* C5  amended: column validation succeeds if and only if every requested  *)
(*     name, with its surrounding whitespace removed, equals some metadata *)
(*     name ignoring letter case; otherwise UnknownColumn lists exactly    *)
(*     the requested names without such a match, in the order and          *)
(*     spelling requested.                                                 *)
(***************************************************************************)
C5_Amended ==
    ColumnsValidated =>
        LET tab == responses[1].body
            req == args.columns.names
            Known(q) == \E i \in 1..Len(tab) : EqIgnoreCase(Trimmed(q), tab[i].name)
            unknown == SelectSeq(req, LAMBDA q : ~Known(q))
        IN /\ unknown = <<>> => ~IsUnknownColumn(exc) /\ Len(requests) = 2
           /\ unknown # <<>> =>
                /\ pc = "done"
                /\ IsUnknownColumn(exc)
                /\ exc.detail = JoinChars(unknown, <<",", " ">>)

C5_Witness ==
    /\ ColumnsValidated
    /\ args.columns.names = <<<<"I", "d">>, <<"x">>>>
    /\ Len(responses[1].body) = 1
    /\ responses[1].body[1].name = <<"I", "D">>
    /\ IsUnknownColumn(exc)
    /\ exc.detail = <<"x">>

(***************************************************************************)
(* C6  A search given at least one filter and a format outside the         *)
(*     supported enumeration fails with UnsupportedFormat and issues       *)
(*     neither the metadata request nor the search request.                *)
(***************************************************************************)
C6_BadFormatRejected ==
    IsSearchCall /\ HasFilter /\ args.format \notin FourFormats =>
        /\ pc = "done"
        /\ IsUnsupportedFormat(exc)
        /\ requests = <<>>
        /\ responses = <<>>

C6_Witness ==
    /\ fn = "hsccone"
    /\ args.format = "xml"
    /\ args.columns.names # <<>>
    /\ LegalArgs
    /\ IsUnsupportedFormat(exc)
    /\ requests = <<>>

(***************************************************************************)
(* C7  as written: every search helper accepts exactly csv, votable, json  *)
(*     and table.                                                          *)
(***************************************************************************)
C7_Original ==
    IsSearchCall /\ HasFilter =>
        (IsUnsupportedFormat(exc) <=> args.format \notin FourFormats)

(***************************************************************************)
(* C7  amended: hscsearch and hsccone accept exactly csv, votable, json    *)
(*     and table; hcvsearch and hcvcone accept exactly csv, votable and    *)
(*     json and reject table like any other value.                         *)
(***************************************************************************)
C7_Amended ==
    IsSearchCall /\ HasFilter =>
        LET accepted == IF fn \in {"hscsearch", "hsccone"}
                        THEN FourFormats
                        ELSE {"csv", "votable", "json"}
        IN IsUnsupportedFormat(exc) <=> args.format \notin accepted

C7_Witness ==
    /\ fn = "hcvcone"
    /\ args.format = "table"
    /\ pc = "done"
    /\ IsUnsupportedFormat(exc)

(***************************************************************************)
(* C8  as written: a search or a metadata fetch called with an illegal     *)
(*     triple fails with InvalidCombination, no URL built and no request   *)
(*     issued.                                                             *)
(***************************************************************************)
C8_Original ==
    (IsSearchCall \/ IsMetadataCall) /\ ~LegalArgs =>
        /\ pc = "done"
        /\ IsInvalidCombination(exc)
        /\ url = ""
        /\ requests = <<>>

(***************************************************************************)
(* C8  amended: a call with an illegal triple never builds a URL and never *)
(*     issues a request, whatever its columns; it fails with               *)
(*     InvalidCombination when it is a metadata fetch or a search with at  *)
(*     least one filter and a format its helper accepts, and with          *)
(*     MissingParameters or UnsupportedFormat otherwise.                   *)
(***************************************************************************)
C8_Amended ==
    (IsSearchCall \/ IsMetadataCall) /\ ~LegalArgs =>
        LET accepted == IF fn \in {"hscsearch", "hsccone"}
                        THEN FourFormats
                        ELSE {"csv", "votable", "json"}
            early == IsSearchCall /\ (~HasFilter \/ args.format \notin accepted)
        IN /\ pc = "done"
           /\ url = ""
           /\ requests = <<>>
           /\ ~early => IsInvalidCombination(exc)
           /\ early => IsMissingParameters(exc) \/ IsUnsupportedFormat(exc)

C8_Witness ==
    /\ fn = "hscsearch"
    /\ args.table = "summary"
    /\ args.magtype = "magpsf"
    /\ args.release = "v3"
    /\ args.columns.names # <<>>
    /\ IsInvalidCombination(exc)
    /\ requests = <<>>

(***************************************************************************)
(* C9  A search whose search request is answered with a non-success        *)
(*     status fails with UpstreamHTTPError and returns nothing; a search   *)
(*     returns a result only after a success status.                       *)
(***************************************************************************)
\* the search request has been answered
SearchAnswered ==
    /\ IsSearchCall
    /\ requests # <<>>
    /\ requests[Len(requests)].url = url
    /\ Len(responses) = Len(requests)

C10_ResultKind ==
    IsSearchCall /\ pc = "done" /\ exc.type = "none" =>
        LET text == responses[Len(responses)].body
        IN /\ args.format = "json" =>
                result.kind = "json" /\ result.value = text.rows
           /\ args.format \in {"csv", "votable"} =>
                result.kind = "text" /\ result.value = text
           /\ args.format = "table" =>
                result.kind = "table" /\ result.value = text.rows

C10_Witness ==
    /\ fn = "hsccone"
    /\ args.format = "table"
    /\ pc = "done"
    /\ result.kind = "table"
    /\ result.value = <<"r1", "r2">>

(***************************************************************************)
(* The request a search is expected to send.                               *)
(***************************************************************************)
IsConeCall == fn \in {"hsccone", "hcvcone"}

\* the filter mapping of the call: the keyword filters and, for a cone
\* search, ra, dec and radius
CallFilters ==
    IF IsConeCall
    THEN ("ra" :> args.pos.ra) @@ ("dec" :> args.pos.dec)
         @@ ("radius" :> args.pos.radius) @@ args.kw
    ELSE args.kw

\* the bracketed, comma-joined list of the requested columns
BracketedColumns ==
    <<"[">> \o JoinChars(args.columns.names, <<",">>) \o <<"]">>

\* the query parameters: the filters and, with columns, the columns list
ExpectedParams ==
    IF args.columns.names # <<>>
    THEN ("columns" :> BracketedColumns) @@ CallFilters
    ELSE CallFilters

\* the search request has been issued; it is the last request of the call
SearchRequestIssued ==
    /\ IsSearchCall
    /\ requests # <<>>
    /\ requests[Len(requests)].url = url

SearchRequest == requests[Len(requests)]

(***************************************************************************)
(* C11 hscsearch with format table sends the request it sends for format   *)
(*     csv (URL ending in .csv, same parameters) and returns the parse of  *)
(*     that csv body, with as many rows as the csv text has.               *)
(***************************************************************************)
C11_TableIsParsedCsv ==
    fn \in {"hscsearch", "hsccone"} /\ args.format \in {"csv", "table"} =>
        /\ url # "" => url = ExpectedPath(args) \o ".csv"
        /\ SearchRequestIssued =>
            SearchRequest = [url |-> ExpectedPath(args) \o ".csv",
                             params |-> ExpectedParams]
        /\ args.format = "table" /\ pc = "done" /\ exc.type = "none" =>
            LET text == responses[Len(responses)].body
            IN /\ text.enc = "csv"
               /\ result.kind = "table"
               /\ result.value = text.rows
               /\ Len(result.value) = Len(text.rows)

C11_Witness ==
    /\ fn = "hscsearch"
    /\ args.format = "table"
    /\ args.columns.names # <<>>
    /\ pc = "done"
    /\ result.kind = "table"
    /\ Len(result.value) = 2

(***************************************************************************)
(* C12 A cone search is the generic search of its helper called with the   *)
(*     same table, release, format, magtype, columns and baseurl and with  *)
(*     the filter mapping made of the extra filters plus ra, dec and       *)
(*     radius: the step a cone call takes is that search step.             *)
(***************************************************************************)
C12_ConeIsSearch ==
    [][pc = "idle" /\ fn' \in {"hsccone", "hcvcone"} =>
        search(IF fn' = "hsccone" THEN "hscsearch" ELSE "hcvsearch", args',
               ("ra" :> args'.pos.ra) @@ ("dec" :> args'.pos.dec)
               @@ ("radius" :> args'.pos.radius) @@ args'.kw)]_vars

C12_Witness ==
    /\ fn = "hsccone"
    /\ pc = "done"
    /\ result.kind = "text"
    /\ DOMAIN data = {"ra", "dec", "radius", "numimages.gte"}
    /\ data["radius"] = Float(500, 3600)
    /\ data["dec"] = Float(12391, 1000)

(***************************************************************************)
(* C13 With a non-empty, valid columns list the search request carries     *)
(*     columns = '[' + names joined by ',' + ']' in the order given; with  *)
(*     columns None or empty it carries no columns parameter and no        *)
(*     metadata request is made.                                           *)
(***************************************************************************)
C13_ColumnsParameter ==
    /\ SearchRequestIssued /\ args.columns.names # <<>> =>
        /\ "columns" \in DOMAIN SearchRequest.params
        /\ SearchRequest.params["columns"] = BracketedColumns
    /\ IsSearchCall /\ args.columns.names = <<>> =>
        /\ Len(requests) <= 1
        /\ \A i \in 1..Len(requests) :
            /\ requests[i].url = url
            /\ "columns" \notin DOMAIN requests[i].params

C13_Witness ==
    /\ SearchRequestIssued
    /\ "columns" \in DOMAIN SearchRequest.params
    /\ SearchRequest.params["columns"] = <<"[", "I", "d", ",", "x", "]">>

(***************************************************************************)
(* C14 Column-name comparison ignores letter case and surrounding          *)
(*     whitespace on the requested name, on the metadata name, or on both: *)
(*     when every requested name matches a metadata name in this way, the  *)
(*     search does not fail with UnknownColumn.                            *)
(***************************************************************************)
C14_IgnoresCaseAndWhitespace ==
    ColumnsValidated =>
        LET tab == responses[1].body
            req == args.columns.names
            Same(q, m) == EqIgnoreCase(Trimmed(q), Trimmed(m))
        IN (\A k \in 1..Len(req) : \E i \in 1..Len(tab) : Same(req[k], tab[i].name))
            => ~IsUnknownColumn(exc)

(***************************************************************************)
(* C15 The URL a search requests is the cat2url path followed by '.' and   *)
(*     the request format; magtype defaults to magaper2 and format to csv, *)
(*     so a cone search on summary, v3 with neither given requests         *)
(*     .../v3/summary/magaper2.csv.                                        *)
(***************************************************************************)
C15_UrlAndDefaults ==
    /\ IsSearchCall /\ "magtype" \in omitted => args.magtype = "magaper2"
    /\ IsSearchCall /\ "format" \in omitted => args.format = "csv"
    /\ SearchRequestIssued =>
        SearchRequest.url = ExpectedPath(args) \o "."
            \o (IF args.format = "table" THEN "csv" ELSE args.format)
    /\ (/\ SearchRequestIssued
        /\ IsConeCall
        /\ args.table = "summary"
        /\ args.release = "v3"
        /\ {"magtype", "format"} \subseteq omitted)
        => SearchRequest.url = args.baseurl \o "/v3/summary/magaper2.csv"

C15_Witness ==
    /\ fn = "hsccone"
    /\ omitted = {"magtype", "format"}
    /\ SearchRequestIssued
    /\ SearchRequest.url =
        "https://catalogs.mast.stsci.edu/api/v0.1/hsc/v3/summary/magaper2.csv"

(***************************************************************************)
(* C16 A metadata fetch for a legal triple issues one GET to the cat2url   *)
(*     path followed by /metadata; on a success status it returns one row  *)
(*     per element of the JSON array, in order, with the element's name,   *)
(*     type and description; on a non-success status it fails with         *)
(*     UpstreamHTTPError.                                                  *)
(***************************************************************************)
C16_MetadataFetch ==
    IsMetadataCall /\ LegalArgs =>
        /\ requests = <<[url |-> ExpectedPath(args) \o "/metadata",
                         params |-> EmptyDict]>>
        /\ pc = "done" =>
            /\ Len(responses) = 1
            /\ IF responses[1].status >= 400
               THEN IsUpstreamHTTPError(exc) /\ result.kind = "none"
               ELSE LET v == responses[1].body
                    IN /\ exc.type = "none"
                       /\ result.kind = "metadata"
                       /\ Len(result.value) = Len(v)
                       /\ \A i \in 1..Len(v) :
                            /\ result.value[i].name = v[i].name
                            /\ result.value[i].type = v[i].type
                            /\ result.value[i].description = v[i].description

C16_Witness ==
    /\ fn = "hscmetadata"
    /\ args.table = "summary"
    /\ pc = "done"
    /\ result.kind = "metadata"
    /\ Len(result.value) = 2
    /\ result.value[1].name = <<"X">>
    /\ result.value[2].name = <<"I", "D">>

(***************************************************************************)
(* C17 When a search validates columns, its metadata request goes to the   *)
(*     base path of the search request - the caller's baseurl, release,    *)
(*     table and magtype segment - followed by /metadata.                  *)
(***************************************************************************)
C17_MetadataSameBase ==
    IsSearchCall /\ args.columns.names # <<>> /\ requests # <<>> =>
        requests[1].url = ExpectedPath(args) \o "/metadata"

(***************************************************************************)
(* C18 The query parameters of the search request are exactly the          *)
(*     caller's filters - the keyword filters and, for a cone search, ra,  *)
(*     dec and radius - with key and value unchanged; the only other       *)
(*     parameter that can appear is columns.                               *)
(***************************************************************************)
C18_ParamsAreFilters ==
    SearchRequestIssued =>
        LET p == SearchRequest.params
        IN /\ DOMAIN p \ {"columns"} = DOMAIN CallFilters
           /\ \A k \in DOMAIN CallFilters : p[k] = CallFilters[k]

C18_Witness ==
    /\ fn = "hcvcone"
    /\ SearchRequestIssued
    /\ DOMAIN SearchRequest.params =
        {"ra", "dec", "radius", "numimages.gte", "columns"}
    /\ SearchRequest.params["numimages.gte"] = "2"
    /\ SearchRequest.params["ra"] = Float(187706, 1000)

(***************************************************************************)
(* C19 as written: every call of the helper layer issues at most one HTTP  *)
(*     request.                                                            *)
(***************************************************************************)
C19_Original == Len(requests) <= 1

(***************************************************************************)
(* C19 amended: a metadata fetch and a search without columns issue at     *)
(*     most one HTTP request; a search with a non-empty columns list       *)
(*     issues at most two, the metadata request and then the search        *)
(*     request.                                                            *)
(***************************************************************************)
C19_Amended ==
    /\ IsMetadataCall => Len(requests) <= 1
    /\ IsSearchCall /\ args.columns.names = <<>> => Len(requests) <= 1
    /\ IsSearchCall /\ args.columns.names # <<>> =>
        /\ Len(requests) <= 2
        /\ Len(requests) >= 1 =>
            requests[1].params = EmptyDict /\ requests[1].url # url
        /\ Len(requests) = 2 => requests[2].url = url

C19_Witness ==
    /\ IsSearchCall
    /\ args.columns.names # <<>>
    /\ Len(requests) = 2
    /\ Len(responses) = 2

(***************************************************************************)
(* C20 No request is retried: a step that fails issues no request and ends *)
(*     the call with that error, nothing but the return follows a failure, *)
(*     and no URL is requested twice within one call.                      *)
(***************************************************************************)
C20_NoRetry ==
    [][/\ exc.type # "none" =>
            pc = "done" /\ pc' = "idle" /\ requests' = <<>>
       /\ exc.type = "none" /\ exc'.type # "none" =>
            /\ pc' = "done"
            /\ requests' = (IF pc = "idle" THEN <<>> ELSE requests)
       /\ pc' \in {"meta_wait", "search_wait"} => exc'.type = "none"
       /\ \A i, j \in 1..Len(requests') :
            requests'[i].url = requests'[j].url => i = j]_vars

C20_Witness ==
    /\ IsSearchCall
    /\ pc = "done"
    /\ IsUpstreamHTTPError(exc)
    /\ Len(requests) = 1
    /\ Len(responses) = 1
    /\ args.columns.names # <<>>

(***************************************************************************)
(* The query string of a request, as requests appends it to the URL.       *)
(***************************************************************************)
QueryString(request) == urlencode(request.params)

\* hsccone(187.706, 12.391, 500/3600, table="summary", release="v3")
IsExampleCone ==
    /\ fn = "hsccone"
    /\ args.pos = [ra |-> Float(187706, 1000), dec |-> Float(12391, 1000),
                   radius |-> Float(500, 3600)]
    /\ args.table = "summary"
    /\ args.release = "v3"
    /\ omitted = {"magtype", "format"}
    /\ args.columns.names = <<>>
    /\ args.kw = EmptyDict

(***************************************************************************)
(* C22 as written: for the cone search of 187.706, 12.391, 500/3600 on     *)
(*     summary / v3 the query string of the request is                     *)
(*     ra=187.706&dec=12.391&radius=0.1389.                                *)
(***************************************************************************)
C22_Original ==
    IsExampleCone /\ SearchRequestIssued =>
        QueryString(SearchRequest) = "ra=187.706&dec=12.391&radius=0.1389"

(***************************************************************************)
(* C22 amended: for that cone search the query string is                   *)
(*     ra=187.706&dec=12.391&radius=0.1388888888888889: the radius is sent *)
(*     as the full text of the float 500/3600, not rounded to four         *)
(*     decimals.                                                           *)
(***************************************************************************)
C22_Amended ==
    IsExampleCone /\ SearchRequestIssued =>
        /\ QueryString(SearchRequest) =
            "ra=187.706&dec=12.391&radius=0.1388888888888889"
        /\ SearchRequest.url = args.baseurl \o "/v3/summary/magaper2.csv"

C22_Witness ==
    /\ IsExampleCone
    /\ SearchRequestIssued
    /\ pc = "done"
    /\ exc.type = "none"
    /\ QueryString(SearchRequest) =
        "ra=187.706&dec=12.391&radius=0.1388888888888889"

(***************************************************************************)
(* C23 In the cross-match step the inner join of the input catalog with    *)
(*     the response on (ra, dec) = (_ra_, _dec_) has exactly as many rows  *)
(*     as the response, so the assertion len(tab) == len(rtab) holds, for  *)
(*     every input catalog and every response whose (_ra_, _dec_) pairs    *)
(*     echo positions of input rows.                                       *)
(***************************************************************************)
C23_JoinLength ==
    fn = "crossmatch" /\ pc \in {"join", "done"} =>
        /\ Len(join(itab, rtab)) = Len(rtab)
        /\ exc.type # "AssertionError"

(***************************************************************************)
(* Vocabulary of the order of the checks.                                  *)
(***************************************************************************)
\* the formats the helper behind entry point f accepts
AcceptedBy(f) ==
    IF f \in {"hscsearch", "hsccone"} THEN FourFormats
    ELSE {"csv", "votable", "json"}

ReleaseMessage == "Bad value for release (must be one of v2, v3)"

TableMessages ==
    {"Bad value for table (for v2 must be one of summary, detailed)",
     "Bad value for table (for v3 must be one of summary, detailed, propermotions, sourcepositions, hcvsummary, hcv)"}

MagtypeMessage == "Bad value for magtype (must be one of magaper2, magauto)"

\* the table is one of the release, which is supported
LegalTable ==
    \/ args.release = "v2" /\ args.table \in {"summary", "detailed"}
    \/ args.release = "v3" /\ args.table \in {"summary", "detailed", "propermotions",
                                              "sourcepositions", "hcvsummary", "hcv"}

(***************************************************************************)
(* C24 Validation in search follows a fixed precedence: a call without a   *)
(*     filter fails with MissingParameters whatever its format and triple, *)
(*     a call with a filter and a format its helper rejects fails with     *)
(*     UnsupportedFormat whatever its triple, and a call with an illegal   *)
(*     triple fails with InvalidCombination before any column is           *)
(*     validated, that is before the metadata request.                     *)
(***************************************************************************)
C24_Precedence ==
    IsSearchCall =>
        /\ ~HasFilter => pc = "done" /\ IsMissingParameters(exc)
        /\ HasFilter /\ args.format \notin AcceptedBy(fn) =>
            pc = "done" /\ IsUnsupportedFormat(exc)
        /\ HasFilter /\ args.format \in AcceptedBy(fn) /\ ~LegalArgs =>
            /\ pc = "done"
            /\ IsInvalidCombination(exc)
            /\ requests = <<>>
            /\ responses = <<>>

C24_Witness ==
    /\ fn = "hcvsearch"
    /\ args.kw = EmptyDict
    /\ args.format = "xml"
    /\ args.release = "v1"
    /\ args.columns.names = <<<<"x">>>>
    /\ pc = "done"
    /\ IsMissingParameters(exc)

(***************************************************************************)
(* C25 checklegal checks the release first, then the table, then the       *)
(*     magtype: an unsupported release gets the release error whatever the *)
(*     table and magtype, a supported release with an illegal table gets   *)
(*     the table error whatever the magtype, and the magtype error is      *)
(*     raised only for a supported release with table summary.             *)
(***************************************************************************)
C25_CheckOrder ==
    IsMetadataCall \/ (IsSearchCall /\ IsInvalidCombination(exc)) =>
        /\ args.release \notin {"v2", "v3"} => exc.msg = ReleaseMessage
        /\ args.release \in {"v2", "v3"} /\ ~LegalTable => exc.msg \in TableMessages
        /\ exc.msg = MagtypeMessage =>
            args.release \in {"v2", "v3"} /\ args.table = "summary"

C25_Witness ==
    /\ fn = "hscmetadata"
    /\ args.release = "v1"
    /\ args.table = "summary"
    /\ args.magtype = "magpsf"
    /\ pc = "done"
    /\ exc.msg = ReleaseMessage

(***************************************************************************)
(* C26 For every table other than summary the magtype is ignored: any      *)
(*     magtype is accepted, and the URL and the requests of the call are   *)
(*     built from the base, the release and the table alone, so they are   *)
(*     the same for every magtype.                                         *)
(***************************************************************************)
C26_MagtypeIgnored ==
    (IsSearchCall \/ IsMetadataCall) /\ LegalTable /\ args.table # "summary" =>
        LET path(base) == base \o "/" \o args.release \o "/" \o args.table
        IN /\ ~IsInvalidCombination(exc)
           /\ IsMetadataCall =>
                /\ url = path(args.baseurl) \o "/metadata"
                /\ requests = <<Get(url, EmptyDict)>>
           /\ IsSearchCall /\ url # "" => url = path(args.baseurl) \o "." \o rformat
           /\ IsSearchCall =>
                \A i \in 1..Len(requests) :
                    \/ requests[i] = Get(path(hscapiurl) \o "/metadata", EmptyDict)
                    \/ requests[i] = Get(url, ExpectedParams)

C26_Witness ==
    /\ fn = "hscsearch"
    /\ args.table = "detailed"
    /\ args.magtype = "magpsf"
    /\ Len(requests) = 2
    /\ pc = "done"
    /\ exc.type = "none"

(***************************************************************************)
(* C27 When a search validates columns, the metadata request is issued     *)
(*     first; the search request is issued only after the metadata request *)
(*     was answered with a success status and every requested column was   *)
(*     found; a failed metadata request ends the call with                 *)
(*     UpstreamHTTPError and no search request.                            *)
(***************************************************************************)
IsMetadataRequest(r) ==
    /\ r.params = EmptyDict
    /\ r.url # url
    /\ \E b \in BaseUrls : r.url = ExpectedPath([args EXCEPT !.baseurl = b]) \o "/metadata"

C27_MetadataFirst ==
    IsSearchCall /\ args.columns.names # <<>> /\ requests # <<>> =>
        /\ IsMetadataRequest(requests[1])
        /\ Len(requests) <= 2
        /\ Len(requests) = 2 =>
            /\ requests[2].url = url
            /\ Len(responses) >= 1
            /\ responses[1].status \in 200..299
            /\ \A i \in 1..Len(args.columns.names) :
                \E k \in 1..Len(responses[1].body) :
                    EqIgnoreCase(Trimmed(args.columns.names[i]),
                                 responses[1].body[k].name)
        /\ Len(responses) >= 1 /\ responses[1].status >= 400 =>
            /\ pc = "done"
            /\ IsUpstreamHTTPError(exc)
            /\ Len(requests) = 1

C27_Witness ==
    /\ IsSearchCall
    /\ pc = "search_wait"
    /\ Len(requests) = 2
    /\ Len(responses) = 1
    /\ responses[1].status = 200
    /\ IsMetadataRequest(requests[1])
    /\ requests[2].url = url

(***************************************************************************)
(* C28 The columns parameter sent to the server contains each requested    *)
(*     name exactly as the caller supplied it - letter case, surrounding   *)
(*     whitespace and duplicates kept - not the lowercased, trimmed form   *)
(*     used for validation and not the metadata's spelling.                *)
(***************************************************************************)
RECURSIVE SplitOnComma(_)
\* the pieces of a character sequence between its commas
SplitOnComma(cs) ==
    LET commas == {i \in 1..Len(cs) : cs[i] = ","}
        first == CHOOSE i \in commas : \A j \in commas : i <= j
    IN IF commas = {} THEN <<cs>>
       ELSE <<SubSeq(cs, 1, first - 1)>> \o SplitOnComma(SubSeq(cs, first + 1, Len(cs)))

C28_ColumnsVerbatim ==
    SearchRequestIssued /\ args.columns.names # <<>> =>
        /\ "columns" \in DOMAIN SearchRequest.params
        /\ LET v == SearchRequest.params["columns"]
           IN /\ Len(v) >= 2
              /\ v[1] = "["
              /\ v[Len(v)] = "]"
              /\ SplitOnComma(SubSeq(v, 2, Len(v) - 1)) = args.columns.names

C28_Witness ==
    /\ SearchRequestIssued
    /\ args.columns.names = <<<<" ", "i", "d">>, <<" ", "i", "d">>>>
    /\ responses[1].body[1].name = <<"I", "D">>
    /\ "columns" \in DOMAIN SearchRequest.params
    /\ SearchRequest.params["columns"] =
        <<"[", " ", "i", "d", ",", " ", "i", "d", "]">>

(***************************************************************************)
(* C29 A search or cone-search call never modifies what the caller passed  *)
(*     in or the module's configuration: at every point of the call, and   *)
(*     when it has ended with a result or an error, the caller's columns   *)
(*     list and filter mapping hold what was passed and the global         *)
(*     hscapiurl is the URL the module set.                                *)
(***************************************************************************)
C29_NoSideEffects ==
    IsSearchCall =>
        /\ heap.columns = args.columns
        /\ heap.kw = args.kw
        /\ heap.hscapiurl = hscapiurl

C29_Witness ==
    /\ fn = "hsccone"
    /\ pc = "done"
    /\ exc.type = "none"
    /\ Len(requests) = 2
    /\ DOMAIN data = {"ra", "dec", "radius", "numimages.gte", "columns"}
    /\ DOMAIN heap.kw = {"numimages.gte"}
    /\ heap.columns.names = <<<<" ", "i", "d">>, <<"I", "d">>>>

(***************************************************************************)
(* Two runs compared: the call in progress and the call before it.         *)
(***************************************************************************)
\* the responses received so far are the first responses of the call before
ResponsesAgree ==
    /\ Len(responses) <= Len(previous.responses)
    /\ \A i \in 1..Len(responses) : responses[i] = previous.responses[i]

\* so far the call has gone exactly as the call before it went
SameRun ==
    LET j == Len(responses)
    IN /\ \A k \in 1..(j + 1) :
            /\ (k <= Len(requests)) <=> (k <= Len(previous.requests))
            /\ k <= Len(requests) => requests[k] = previous.requests[k]
       /\ j < Len(previous.responses) => pc # "done"
       /\ j = Len(previous.responses) =>
            /\ pc = "done"
            /\ exc = previous.exc
            /\ result = previous.result

====
